---- MODULE Spec2Model ----
(***************************************************************************)
(* A model of the Telegram Stars storefront bot (src/main.py,              *)
(* src/config.py).  The program state is the module-level STATS            *)
(* dictionary; every update delivered by the transport runs one handler    *)
(* coroutine, which executes atomically between its await points.  Each    *)
(* delivered update occupies one slot of `task`, which keeps the handler's *)
(* arguments, its position, its local variables and the effects it has     *)
(* produced (replies, invoices, pre-checkout answers, log records).        *)
(* An awaited call may raise wherever a try block of the handler catches   *)
(* the exception; the exception that leaves a handler is the KeyError of   *)
(* the catalog lookup in successful_payment_callback.                      *)
(***************************************************************************)
EXTENDS Integers, Sequences, FiniteSets, TLC

\* Number of updates delivered to the bot in one behaviour.
MaxTasks == 2

Tasks == 1..MaxTasks

\* update.effective_user.id values and provider-assigned charge ids.
Users == {7, 8}
ChargeIds == {"c1", "c2"}

\* src/config.py: the catalog.
ITEMS ==
  [ice_cream |-> [name |-> "Ice Cream", price |-> 1,
                  description |-> "A delicious virtual ice cream",
                  secret |-> "FROZEN2025"],
   cookie    |-> [name |-> "Cookie", price |-> 3,
                  description |-> "A sweet virtual cookie",
                  secret |-> "SWEET2025"],
   hamburger |-> [name |-> "Hamburger", price |-> 5,
                  description |-> "A tasty virtual hamburger",
                  secret |-> "BURGER2025"]]

ItemIds == DOMAIN ITEMS

\* Payloads an update may carry: the catalog keys and one string outside it.
Payloads == ItemIds \cup {"bogus"}

\* src/config.py: the fixed reply texts used by refund_command.
MESSAGES ==
  [refund_success |-> "Refund processed successfully!",
   refund_failed  |-> "Refund could not be processed.",
   refund_usage   |-> "Please provide the transaction ID after the /refund command."]

\* Texts built inline in src/main.py.
RefundErrorText == "Sorry, there was an error processing your refund"
PurchaseText == "Thank you for your purchase!"
SorryText == "Sorry, something went wrong while processing your request."
PrecheckoutReason == "Something went wrong..."

\* A reply is its fixed text plus the values interpolated into it.
Reply(text, parts) == [text |-> text, parts |-> parts]

\* Exceptions the awaited calls can raise.
NoExc == [type |-> "", message |-> ""]
BadRequest == [type |-> "BadRequest", message |-> "CHARGE_NOT_FOUND"]
NetworkError == [type |-> "NetworkError", message |-> "timed out"]
KeyErrorOf(k) == [type |-> "KeyError", message |-> k]

\* str(user_id): the key STATS is indexed by.
Str(u) == CASE u = 7 -> "7" [] u = 8 -> "8" [] OTHER -> "0"

\* defaultdict(int): a missing key reads as 0.
DictGet(d, k) == IF k \in DOMAIN d THEN d[k] ELSE 0

\* An update that writes back a value read before the other writers ran.
DictIncrStale(d, k) ==
  [x \in (DOMAIN d) \cup {k} |-> IF x = k THEN 1 ELSE d[x]]

\* d[k] += 1 on a defaultdict(int).
DictIncr(d, k) ==
  [x \in (DOMAIN d) \cup {k} |-> IF x = k THEN DictGet(d, k) + 1 ELSE d[x]]

EmptyDict == [x \in {} |-> 0]

VARIABLES STATS, task

vars == <<STATS, task>>

\* A slot no update has been delivered to yet.
Idle ==
  [kind |-> "none", pc |-> "idle", user |-> 0, args |-> <<>>, charge |-> "",
   payload |-> "", msg |-> "", success |-> "unset", exc |-> NoExc,
   replies |-> <<>>,
   invoices |-> <<>>, answers |-> <<>>, logs |-> <<>>]

Init ==
  /\ STATS = [purchases |-> EmptyDict, refunds |-> EmptyDict]
  /\ task = [s \in Tasks |-> Idle]

\* Updates are delivered in slot order.
CanDeliver(s) ==
  /\ task[s].kind = "none"
  /\ \A t \in Tasks : t < s => task[t].kind # "none"

Set(s, r) == task' = [task EXCEPT ![s] = r]

\* Lines 37-40: the two counters of a user, as the handlers read them.
Purchases(u) == DictGet(STATS.purchases, Str(u))
Refunds(u) == DictGet(STATS.refunds, Str(u))

----------------------------------------------------------------------------
(* refund_command *)

\* Lines 69-83: the usage branch, or the call of the provider's refund API.
RefundStart(s) ==
  /\ CanDeliver(s)
  /\ \E u \in Users, a \in {<<>>} \cup {<<c>> : c \in ChargeIds} :
       IF a = <<>>
       THEN Set(s, [Idle EXCEPT !.kind = "refund", !.user = u, !.args = a,
                                 !.pc = "await_usage"])
       ELSE Set(s, [Idle EXCEPT !.kind = "refund", !.user = u, !.args = a,
                                 !.charge = a[1], !.pc = "await_refund"])
  /\ UNCHANGED STATS

\* A usage branch without its return: the handler goes on into the try
\* block, where context.args[0] raises IndexError.
RefundUsageFallsThrough(s) ==
  /\ task[s].kind = "refund" /\ task[s].pc = "await_usage"
  /\ Set(s, [task[s] EXCEPT !.pc = "await_error",
               !.exc = [type |-> "IndexError",
                        message |-> "list index out of range"],
               !.logs = Append(@, "error"),
               !.replies = Append(@, Reply(MESSAGES.refund_usage, <<>>))])
  /\ UNCHANGED STATS

\* Lines 70-73: the usage reply completes and the handler returns.
RefundUsage(s) ==
  /\ task[s].kind = "refund" /\ task[s].pc = "await_usage"
  /\ Set(s, [task[s] EXCEPT !.pc = "done",
               !.replies = Append(@, Reply(MESSAGES.refund_usage, <<>>))])
  /\ UNCHANGED STATS

\* A refund counter bumped whatever the provider answered.
RecordRefundAlways(stats, u, success) ==
  [stats EXCEPT !.refunds = DictIncr(@, Str(u))]

\* Lines 85-86: the refund counter moves only when success is true.
RecordRefund(stats, u, success) ==
  IF success THEN [stats EXCEPT !.refunds = DictIncr(@, Str(u))] ELSE stats

\* Lines 80-89 and 91-95: refund_star_payment returns or raises.
RefundResume(s) ==
  /\ task[s].kind = "refund" /\ task[s].pc = "await_refund"
  /\ \E result \in {"true", "false", "raise"} :
       CASE result = "true" ->
              /\ STATS' = RecordRefund(STATS, task[s].user, TRUE)
              /\ Set(s, [task[s] EXCEPT !.pc = "await_success",
                           !.success = "true"])
         [] result = "false" ->
              /\ STATS' = RecordRefund(STATS, task[s].user, FALSE)
              /\ Set(s, [task[s] EXCEPT !.pc = "await_failed",
                           !.success = "false"])
         [] OTHER ->
              /\ UNCHANGED STATS
              /\ Set(s, [task[s] EXCEPT !.pc = "await_error",
                           !.exc = BadRequest, !.logs = Append(@, "error")])

\* Line 80: the handler's task is cancelled while it awaits the provider.
\* CancelledError is not an Exception, so the except branch does not run.
RefundCancel(s) ==
  /\ task[s].kind = "refund" /\ task[s].pc = "await_refund"
  /\ Set(s, [task[s] EXCEPT !.pc = "cancelled"])
  /\ UNCHANGED STATS

\* Lines 87, 89: the reply inside the try block completes, or raises into
\* the except branch (lines 91-95).
RefundReply(s) ==
  /\ task[s].kind = "refund"
  /\ task[s].pc \in {"await_success", "await_failed"}
  /\ \/ Set(s, [task[s] EXCEPT !.pc = "done",
                  !.replies = Append(@,
                     Reply(IF task[s].pc = "await_success"
                           THEN MESSAGES.refund_success
                           ELSE MESSAGES.refund_failed, <<>>))])
     \/ Set(s, [task[s] EXCEPT !.pc = "await_error", !.exc = NetworkError,
                  !.logs = Append(@, "error")])
  /\ UNCHANGED STATS

\* Lines 97-101: the reply of the except branch.
RefundError(s) ==
  /\ task[s].kind = "refund" /\ task[s].pc = "await_error"
  /\ Set(s, [task[s] EXCEPT !.pc = "done",
               !.replies = Append(@,
                  Reply(RefundErrorText,
                        <<task[s].exc.type, task[s].exc.message>>))])
  /\ UNCHANGED STATS

----------------------------------------------------------------------------
(* successful_payment_callback *)

\* A purchase counter left alone by the handler.
RecordPurchaseSkipped(stats, u) == stats

\* A purchase counted under one fixed key instead of the paying user's.
RecordPurchaseSharedKey(stats, u) ==
  [stats EXCEPT !.purchases = DictIncr(@, "7")]

\* Line 156: the purchase counter of the paying user.
RecordPurchase(stats, u) ==
  [stats EXCEPT !.purchases = DictIncr(@, Str(u))]

\* A handler that counts the purchase before it looks the item up.
PaymentStartCountFirst(s) ==
  /\ CanDeliver(s)
  /\ \E u \in Users, c \in ChargeIds, p \in Payloads :
       /\ STATS' = RecordPurchase(STATS, u)
       /\ IF p \in DOMAIN ITEMS
          THEN Set(s, [Idle EXCEPT !.kind = "payment", !.user = u,
                         !.charge = c, !.payload = p, !.pc = "await_reply",
                         !.logs = <<"info">>])
          ELSE Set(s, [Idle EXCEPT !.kind = "payment", !.user = u,
                         !.charge = c, !.payload = p, !.pc = "raised",
                         !.exc = KeyErrorOf(p)])

\* Lines 150-163: the catalog lookup, the counter update, the log record
\* and the call of reply_text.
PaymentStart(s) ==
  /\ CanDeliver(s)
  /\ \E u \in Users, c \in ChargeIds, p \in Payloads :
       IF p \in DOMAIN ITEMS
       THEN /\ STATS' = RecordPurchase(STATS, u)
            /\ Set(s, [Idle EXCEPT !.kind = "payment", !.user = u,
                         !.charge = c, !.payload = p, !.pc = "await_reply",
                         !.logs = <<"info">>])
       ELSE /\ UNCHANGED STATS
            /\ Set(s, [Idle EXCEPT !.kind = "payment", !.user = u,
                         !.charge = c, !.payload = p, !.pc = "raised",
                         !.exc = KeyErrorOf(p)])

\* Lines 163-171: the fulfilment reply completes.
PaymentReply(s) ==
  /\ task[s].kind = "payment" /\ task[s].pc = "await_reply"
  /\ Set(s, [task[s] EXCEPT !.pc = "done",
               !.replies = Append(@,
                  Reply(PurchaseText,
                        <<ITEMS[task[s].payload].name,
                          ITEMS[task[s].payload].secret,
                          task[s].charge>>))])
  /\ UNCHANGED STATS

----------------------------------------------------------------------------
(* button_handler *)

\* query.message: absent, an InaccessibleMessage, or a Message.
MsgKinds == {"none", "inaccessible", "message"}

\* An invoice whose payload is the item's display name.
InvoiceWithNamePayload(item_id) ==
  [payload |-> ITEMS[item_id].name, title |-> ITEMS[item_id].name,
   description |-> ITEMS[item_id].description, provider_token |-> "",
   currency |-> "XTR",
   prices |-> <<[label |-> ITEMS[item_id].name,
                 amount |-> ITEMS[item_id].price]>>,
   start_parameter |-> "start_parameter"]

\* Lines 120-129: the invoice issued for a catalog key.
InvoiceFor(item_id) ==
  [payload |-> item_id, title |-> ITEMS[item_id].name,
   description |-> ITEMS[item_id].description, provider_token |-> "",
   currency |-> "XTR",
   prices |-> <<[label |-> ITEMS[item_id].name,
                 amount |-> ITEMS[item_id].price]>>,
   start_parameter |-> "start_parameter"]

\* Lines 131-136: the except branch logs and, when the message is a
\* Message, goes on to the apology reply.
SelectExcept(r, e) ==
  [r EXCEPT !.exc = e, !.logs = Append(@, "error"),
            !.pc = IF r.msg = "message" THEN "await_sorry" ELSE "done"]

\* Lines 106-111: the guard on the query's message, then query.answer().
SelectStart(s) ==
  /\ CanDeliver(s)
  /\ \E m \in MsgKinds, d \in Payloads :
       Set(s, [Idle EXCEPT !.kind = "select", !.payload = d, !.msg = m,
                 !.pc = IF m = "none" THEN "done" ELSE "await_answer"])
  /\ UNCHANGED STATS

\* Lines 111-120: query.answer() returns or raises; the catalog lookup;
\* the isinstance guard; the call of send_invoice.
SelectAnswered(s) ==
  /\ task[s].kind = "select" /\ task[s].pc = "await_answer"
  /\ \/ IF task[s].payload \notin DOMAIN ITEMS
        THEN Set(s, SelectExcept(task[s], KeyErrorOf(task[s].payload)))
        ELSE IF task[s].msg # "message"
        THEN Set(s, [task[s] EXCEPT !.pc = "done"])
        ELSE Set(s, [task[s] EXCEPT !.pc = "await_invoice"])
     \/ Set(s, SelectExcept(task[s], NetworkError))
  /\ UNCHANGED STATS

\* Lines 120-129: send_invoice returns or raises.
SelectInvoice(s) ==
  /\ task[s].kind = "select" /\ task[s].pc = "await_invoice"
  /\ \/ Set(s, [task[s] EXCEPT !.pc = "done",
                  !.invoices = Append(@, InvoiceFor(task[s].payload))])
     \/ Set(s, SelectExcept(task[s], NetworkError))
  /\ UNCHANGED STATS

\* Lines 134-136: the apology reply.
SelectSorry(s) ==
  /\ task[s].kind = "select" /\ task[s].pc = "await_sorry"
  /\ Set(s, [task[s] EXCEPT !.pc = "done",
               !.replies = Append(@, Reply(SorryText, <<>>))])
  /\ UNCHANGED STATS

----------------------------------------------------------------------------
(* precheckout_callback *)

\* A pre-checkout answer that approves whatever the payload is.
PrecheckoutAnswerAlwaysOk(payload) == [ok |-> TRUE, error_message |-> ""]

\* Lines 142-145: the arguments of query.answer for a payload.
PrecheckoutAnswer(payload) ==
  IF payload \in DOMAIN ITEMS
  THEN [ok |-> TRUE, error_message |-> ""]
  ELSE [ok |-> FALSE, error_message |-> PrecheckoutReason]

\* A pre-checkout that already counts the purchase of the asking user.
PrecheckoutStartRecording(s) ==
  /\ CanDeliver(s)
  /\ \E p \in Payloads, u \in Users :
       /\ Set(s, [Idle EXCEPT !.kind = "precheckout", !.payload = p,
                    !.answers = <<PrecheckoutAnswer(p)>>,
                    !.pc = "await_precheckout"])
       /\ STATS' = RecordPurchase(STATS, u)

\* Lines 141-145: the membership test and the call of query.answer.
PrecheckoutStart(s) ==
  /\ CanDeliver(s)
  /\ \E p \in Payloads :
       Set(s, [Idle EXCEPT !.kind = "precheckout", !.payload = p,
                 !.answers = <<PrecheckoutAnswer(p)>>,
                 !.pc = "await_precheckout"])
  /\ UNCHANGED STATS

\* Lines 143, 145: query.answer completes and the handler returns.
PrecheckoutDone(s) ==
  /\ task[s].kind = "precheckout" /\ task[s].pc = "await_precheckout"
  /\ Set(s, [task[s] EXCEPT !.pc = "done"])
  /\ UNCHANGED STATS

----------------------------------------------------------------------------
(* error_handler *)

\* Lines 174-176: an exception that left a handler is logged.
ErrorHandler(s) ==
  /\ task[s].pc = "raised"
  /\ Set(s, [task[s] EXCEPT !.pc = "done", !.logs = Append(@, "error")])
  /\ UNCHANGED STATS

----------------------------------------------------------------------------

Next ==
  \E s \in Tasks :
    \/ RefundStart(s)
    \/ RefundUsage(s)
    \/ RefundResume(s)
    \/ RefundCancel(s)
    \/ RefundReply(s)
    \/ RefundError(s)
    \/ PaymentStart(s)
    \/ PaymentReply(s)
    \/ SelectStart(s)
    \/ SelectAnswered(s)
    \/ SelectInvoice(s)
    \/ SelectSorry(s)
    \/ PrecheckoutStart(s)
    \/ PrecheckoutDone(s)
    \/ ErrorHandler(s)

Spec == Init /\ [][Next]_vars

\* The updates that touch the counters: payment confirmations and refund
\* requests alone.
NextStats ==
  \E s \in Tasks :
    \/ RefundStart(s)
    \/ RefundUsage(s)
    \/ RefundResume(s)
    \/ RefundCancel(s)
    \/ RefundReply(s)
    \/ RefundError(s)
    \/ PaymentStart(s)
    \/ PaymentReply(s)
    \/ ErrorHandler(s)

SpecStats == Init /\ [][NextStats]_vars

----------------------------------------------------------------------------
(* What the delivered updates have established so far.                     *)

PaymentTasks == {s \in Tasks : task[s].kind = "payment"}
RefundTasks == {s \in Tasks : task[s].kind = "refund"}

\* Payment-confirmed events that got past the catalog lookup: the purchases
\* the handler has recorded.
RecordedPayments ==
  {s \in PaymentTasks : task[s].payload \in ItemIds}

\* Charge c has been recorded by a payment-confirmed event.
ChargeRecorded(c) == \E t \in RecordedPayments : task[t].charge = c

\* A refund request that completed with the refund-success reply.
RefundSucceeded(t) ==
  /\ task[t].kind = "refund" /\ task[t].pc = "done"
  /\ task[t].replies = <<Reply(MESSAGES.refund_success, <<>>)>>

\* No handler is in flight.
Quiescent == \A s \in Tasks : task[s].pc \in {"idle", "done", "cancelled"}

\* C1: delivering the payment-confirmed event a second time, with the same
\* chargeId, userId and itemId as a delivery already handled, records no
\* second purchase: the purchase counters do not move.
C1_DuplicateDeliveryIgnored ==
  [][\A s \in Tasks :
       ( /\ task[s].kind = "none"
         /\ task'[s].kind = "payment"
         /\ \E t \in RecordedPayments :
              /\ task[t].pc = "done"
              /\ task[t].charge = task'[s].charge
              /\ task[t].user = task'[s].user
              /\ task[t].payload = task'[s].payload )
       => STATS'.purchases = STATS.purchases]_vars

\* C2: when two payment-confirmed events for the same chargeId, seen by no
\* other event, are in flight together, the user's purchase counter has
\* moved by exactly one for that charge.
C2_ConcurrentDuplicatesCountOnce ==
  \A s, t \in RecordedPayments :
    ( /\ s # t
      /\ task[s].pc = "await_reply" /\ task[t].pc = "await_reply"
      /\ task[s].charge = task[t].charge
      /\ task[s].user = task[t].user
      /\ task[s].payload = task[t].payload
      /\ \A x \in PaymentTasks \ {s, t} : task[x].charge # task[s].charge )
    => Purchases(task[s].user) =
         1 + Cardinality({x \in RecordedPayments \ {s, t} :
                            task[x].user = task[s].user})

\* C3: a refund request for a chargeId no payment-confirmed event has
\* recorded changes no counter and does not go on to the success reply.
C3_UnknownChargeNotRefunded ==
  [][\A s \in Tasks :
       ( /\ task[s].kind = "refund" /\ task[s].pc = "await_refund"
         /\ task'[s] # task[s]
         /\ ~ChargeRecorded(task[s].charge) )
       => /\ STATS' = STATS
          /\ task'[s].pc # "await_success"]_vars

\* C4: once a refund request for a chargeId has succeeded, a later refund
\* request for the same chargeId increments no refund counter and does not
\* go on to the success reply.
C4_RefundedAtMostOnce ==
  [][\A s \in Tasks :
       ( /\ task[s].kind = "refund" /\ task[s].pc = "await_refund"
         /\ task'[s] # task[s]
         /\ \E t \in Tasks \ {s} :
              RefundSucceeded(t) /\ task[t].charge = task[s].charge )
       => /\ STATS'.refunds = STATS.refunds
          /\ task'[s].pc # "await_success"]_vars

\* The distinct charges confirmed for user u, and those of them a refund
\* request of u has refunded.
ConfirmedCharges(u) ==
  {task[s].charge : s \in {x \in RecordedPayments : task[x].user = u}}
RefundedCharges(u) ==
  {c \in ConfirmedCharges(u) :
     \E t \in RefundTasks :
       task[t].user = u /\ task[t].charge = c /\ task[t].success = "true"}

\* C5: with no handler in flight, every user's purchaseCount is the number
\* of distinct charges confirmed for that user and refundCount the number
\* of those that were refunded.
C5_StatsCountDistinctCharges ==
  Quiescent =>
    \A u \in Users :
      /\ Purchases(u) = Cardinality(ConfirmedCharges(u))
      /\ Refunds(u) = Cardinality(RefundedCharges(u))

\* C6: a refund request for a chargeId recorded for another user than the
\* requester increments no refund counter and does not go on to the
\* success reply.
C6_ForeignChargeNotRefunded ==
  [][\A s \in Tasks :
       ( /\ task[s].kind = "refund" /\ task[s].pc = "await_refund"
         /\ task'[s] # task[s]
         /\ ChargeRecorded(task[s].charge)
         /\ \A t \in RecordedPayments :
              task[t].charge = task[s].charge => task[t].user # task[s].user )
       => /\ STATS'.refunds = STATS.refunds
          /\ task'[s].pc # "await_success"]_vars

\* The payment-confirmed events of user u that have sent the reply carrying
\* a secret.
SecretReplies(u) ==
  {s \in PaymentTasks :
     /\ task[s].user = u
     /\ \E i \in 1..Len(task[s].replies) :
          \E k \in ItemIds :
            \E j \in 1..Len(task[s].replies[i].parts) :
              task[s].replies[i].parts[j] = ITEMS[k].secret}

\* C7: every reply carrying a secret is matched by a purchase already
\* counted for its user, the secret sent is the one of the event's item,
\* and a payment-confirmed event whose payload is no catalog key has sent
\* no reply at all.
C7_SecretOnlyAfterRecorded ==
  /\ \A u \in Users : Purchases(u) >= Cardinality(SecretReplies(u))
  /\ \A s \in PaymentTasks :
       /\ task[s].payload \notin ItemIds => task[s].replies = <<>>
       /\ task[s].replies # <<>> =>
            /\ Len(task[s].replies) = 1
            /\ task[s].replies[1].parts[2] = ITEMS[task[s].payload].secret

\* C7 witness: one payment-confirmed event has been answered with its
\* secret and another, whose payload is no catalog key, has been handled.
C7_Witness ==
  \E s, t \in PaymentTasks :
    /\ s \in SecretReplies(task[s].user) /\ task[s].pc = "done"
    /\ task[t].payload \notin ItemIds /\ task[t].pc = "done"

SelectTasks == {s \in Tasks : task[s].kind = "select"}

PrecheckoutTasks == {s \in Tasks : task[s].kind = "precheckout"}

\* C9: every pre-checkout query has been answered exactly once; the answer
\* approves exactly when the payload is a catalog key, and a rejection
\* carries a non-empty reason.
C9_PrecheckoutApprovesIffKnown ==
  \A s \in PrecheckoutTasks :
    /\ Len(task[s].answers) = 1
    /\ task[s].answers[1].ok = (task[s].payload \in ItemIds)
    /\ ~task[s].answers[1].ok => task[s].answers[1].error_message # ""

\* C9 witness: one query has been approved and one rejected.
C9_Witness ==
  \E s, t \in PrecheckoutTasks :
    /\ task[s].pc = "done" /\ task[s].answers[1].ok
    /\ task[t].pc = "done" /\ ~task[t].answers[1].ok

\* C10: every user's refund counter is the number of that user's refund
\* requests for which the provider call has returned success, so a call
\* that is pending, returned false, raised or was cancelled has left the
\* counters as they were; the purchase counters count the recorded
\* payments only.
C10_RefundGatedByProvider ==
  \A u \in Users :
    /\ Refunds(u) =
         Cardinality({s \in RefundTasks :
                        task[s].user = u /\ task[s].success = "true"})
    /\ Purchases(u) =
         Cardinality({s \in RecordedPayments : task[s].user = u})

\* C10 witness: one refund request of a user was granted by the provider
\* and another one of the same user was cancelled during the provider call.
C10_Witness ==
  \E s, t \in RefundTasks :
    /\ task[s].user = task[t].user
    /\ task[s].success = "true" /\ task[s].pc = "done"
    /\ task[t].pc = "cancelled"
    /\ Refunds(task[s].user) = 1

\* C11: no step of a selection or pre-checkout handler, whatever its
\* payload and whether it succeeds or fails, changes a purchase or refund
\* counter (the catalog ITEMS is a constant of the program).
C11_SelectionAndPrecheckoutReadOnly ==
  [][\A s \in Tasks :
       (task'[s] # task[s] /\ task'[s].kind \in {"select", "precheckout"})
       => STATS' = STATS]_vars

\* C11 witness: with a purchase already counted, a selection has failed and
\* ended, or a pre-checkout has been rejected and ended.
C11_Witness ==
  \E s \in RecordedPayments, t \in Tasks :
    /\ Purchases(task[s].user) = 1
    /\ task[t].pc = "done"
    /\ \/ task[t].kind = "select" /\ task[t].exc # NoExc
       \/ task[t].kind = "precheckout" /\ ~task[t].answers[1].ok

\* C12: no reply of a refund request that ran into an exception carries the
\* exception's type or message; the exception is logged only.
C12_NoDiagnosticInReply ==
  \A s \in RefundTasks :
    task[s].exc # NoExc =>
      /\ "error" \in {task[s].logs[i] : i \in 1..Len(task[s].logs)}
      /\ \A i \in 1..Len(task[s].replies) :
           \A j \in 1..Len(task[s].replies[i].parts) :
             task[s].replies[i].parts[j] \notin
               {task[s].exc.type, task[s].exc.message}

\* C14: no user's refund counter exceeds that user's purchase counter.
C14_RefundsAtMostPurchases ==
  \A u \in Users : Refunds(u) <= Purchases(u)

\* C15: a completed refund request that named a charge has replied with
\* the refund-success message exactly when the provider call returned
\* success (and the counter was incremented); otherwise its reply is a
\* failure message, different from the success message.
C15_SuccessReplyIffProviderSuccess ==
  \A s \in RefundTasks :
    (task[s].pc = "done" /\ task[s].args # <<>>) =>
      /\ (task[s].replies = <<Reply(MESSAGES.refund_success, <<>>)>>)
           <=> (task[s].success = "true")
      /\ task[s].success # "true" =>
           /\ Len(task[s].replies) = 1
           /\ task[s].replies[1].text \in
                {MESSAGES.refund_failed, RefundErrorText}
           /\ task[s].replies[1].text # MESSAGES.refund_success

\* The three failures C13 names: an unknown item on selection, an unknown
\* payload on payment confirmation, a provider error on refund.
FailedEvent(s) ==
  \/ task[s].kind = "select" /\ task[s].exc.type = "KeyError"
  \/ task[s].kind = "payment" /\ task[s].exc.type = "KeyError"
  \/ task[s].kind = "refund" /\ task[s].exc = BadRequest

\* C13: a failed event leaves no trace in the counters (they are what the
\* events that did not fail have made them), its handler can always run on
\* to its end, and the next update can still be delivered to any handler.
C13_FailureScopedToEvent ==
  /\ \A u \in Users :
       /\ Purchases(u) =
            Cardinality({s \in PaymentTasks :
                           task[s].user = u /\ ~FailedEvent(s)})
       /\ Refunds(u) =
            Cardinality({s \in RefundTasks :
                           /\ task[s].user = u /\ ~FailedEvent(s)
                           /\ task[s].success = "true"})
  /\ \A s \in Tasks :
       (FailedEvent(s) /\ task[s].pc # "done") =>
         ENABLED (ErrorHandler(s) \/ RefundError(s) \/ SelectSorry(s))
  /\ \A s, t \in Tasks :
       (FailedEvent(s) /\ CanDeliver(t)) =>
         /\ ENABLED PaymentStart(t)
         /\ ENABLED RefundStart(t)
         /\ ENABLED SelectStart(t)
         /\ ENABLED PrecheckoutStart(t)

\* C13 witness: after a payment-confirmed event with an unknown payload has
\* failed and been logged, a later payment-confirmed event has been counted
\* and answered.
C13_Witness ==
  \E s, t \in PaymentTasks :
    /\ s < t
    /\ FailedEvent(s) /\ task[s].pc = "done"
    /\ task[s].logs = <<"error">>
    /\ task[t].pc = "done" /\ task[t].replies # <<>>
    /\ Purchases(task[t].user) = 1

\* Handlers of user u that are suspended after their counter update.
InFlightPayments(u) ==
  {s \in RecordedPayments : task[s].user = u /\ task[s].pc = "await_reply"}
InFlightRefunds(u) ==
  {s \in RefundTasks : task[s].user = u /\ task[s].pc = "await_success"}

\* C16: when the payment-confirmed handlers of a user that are in flight
\* carry pairwise distinct chargeIds, the user's purchase counter has
\* grown by one for each of them on top of the purchases completed before;
\* likewise the refund counter for the successful refunds in flight.
C16_NoLostUpdate ==
  \A u \in Users :
    LET P == InFlightPayments(u)
        R == InFlightRefunds(u)
    IN /\ Cardinality({task[s].charge : s \in P}) = Cardinality(P)
          => Purchases(u) =
               Cardinality(P) +
               Cardinality({s \in PaymentTasks :
                              /\ task[s].user = u /\ task[s].pc = "done"
                              /\ task[s].payload \in ItemIds})
       /\ Cardinality({task[s].charge : s \in R}) = Cardinality(R)
          => Refunds(u) =
               Cardinality(R) +
               Cardinality({s \in RefundTasks :
                              /\ task[s].user = u
                              /\ task[s].success = "true"
                              /\ task[s].pc \in {"await_error", "done"}})

\* C16 witness: two or more payment-confirmed handlers of one user are
\* suspended at the reply together, with pairwise distinct chargeIds.
C16_Witness ==
  \E u \in Users :
    /\ Cardinality(InFlightPayments(u)) >= 2
    /\ \A s, t \in InFlightPayments(u) :
         s # t => task[s].charge # task[t].charge
    /\ Purchases(u) = Cardinality(InFlightPayments(u))

\* The step is one of handler s.
Steps(s) == task'[s] # task[s]

\* Every counter but the named one is left as it was.
OnlyPurchasesOf(u) ==
  /\ \A v \in Users \ {u} : Purchases(v)' = Purchases(v)
  /\ \A v \in Users : Refunds(v)' = Refunds(v)
OnlyRefundsOf(u) ==
  /\ \A v \in Users \ {u} : Refunds(v)' = Refunds(v)
  /\ \A v \in Users : Purchases(v)' = Purchases(v)

\* C17 as stated: the delivery of any payment-confirmed event of user u
\* raises purchases[u] by one and a successful refund of user u raises
\* refunds[u] by one, every other counter being unchanged.
C17_EveryPaymentCountsForItsUser ==
  [][\A s \in Tasks :
       /\ (task[s].kind = "none" /\ task'[s].kind = "payment") =>
            /\ DictGet(STATS'.purchases, Str(task'[s].user)) =
                 Purchases(task'[s].user) + 1
            /\ OnlyPurchasesOf(task'[s].user)
       /\ (Steps(s) /\ task[s].kind = "refund" /\ task'[s].success = "true"
             /\ task[s].success = "unset") =>
            /\ Refunds(task[s].user)' = Refunds(task[s].user) + 1
            /\ OnlyRefundsOf(task[s].user)]_vars

\* C17 amended: a payment-confirmed event of user u whose payload is a
\* catalog item raises purchases[u] by one and changes no other counter;
\* one whose payload is no catalog item changes no counter; a successful
\* refund of user u raises refunds[u] by one and changes no other counter.
C17_StatsIsolatedPerUser ==
  [][\A s \in Tasks :
       /\ (task[s].kind = "none" /\ task'[s].kind = "payment"
             /\ task'[s].payload \in ItemIds) =>
            /\ DictGet(STATS'.purchases, Str(task'[s].user)) =
                 Purchases(task'[s].user) + 1
            /\ OnlyPurchasesOf(task'[s].user)
       /\ (task[s].kind = "none" /\ task'[s].kind = "payment"
             /\ task'[s].payload \notin ItemIds) =>
            STATS' = STATS
       /\ (Steps(s) /\ task[s].kind = "refund" /\ task'[s].success = "true"
             /\ task[s].success = "unset") =>
            /\ Refunds(task[s].user)' = Refunds(task[s].user) + 1
            /\ OnlyRefundsOf(task[s].user)]_vars

\* C17 witness: one user has a purchase and no refund, the other a refund
\* and no purchase.
C17_Witness ==
  \E u, v \in Users :
    /\ u # v
    /\ Purchases(u) = 1 /\ Refunds(u) = 0
    /\ Purchases(v) = 0 /\ Refunds(v) = 1

\* The payloads of the invoices issued so far.
IssuedPayloads ==
  UNION {{task[s].invoices[i].payload : i \in 1..Len(task[s].invoices)} :
           s \in SelectTasks}

\* C18: the payload of every invoice issued is a catalog key, every
\* pre-checkout query carrying such a payload has been approved, and every
\* payment-confirmed event carrying such a payload has found its item.
C18_IssuedInvoicesPassValidation ==
  /\ IssuedPayloads \subseteq ItemIds
  /\ \A t \in PrecheckoutTasks :
       task[t].payload \in IssuedPayloads =>
         task[t].answers = <<[ok |-> TRUE, error_message |-> ""]>>
  /\ \A t \in PaymentTasks :
       task[t].payload \in IssuedPayloads =>
         task[t].exc = NoExc /\ task[t].pc \in {"await_reply", "done"}

\* C18 witness: an invoice has been issued and a pre-checkout query with
\* its payload has been approved.
C18_Witness ==
  \E s \in SelectTasks, t \in PrecheckoutTasks :
    /\ task[s].invoices # <<>>
    /\ task[t].payload = task[s].invoices[1].payload
    /\ task[t].pc = "done" /\ task[t].answers[1].ok

\* C19: every step of a /refund request without an argument leaves the
\* counters as they were, never puts the handler at the provider call, and
\* ends with the usage message as the only reply.
C19_RefundWithoutArgsOnlyUsage ==
  [][\A s \in Tasks :
       (Steps(s) /\ task'[s].kind = "refund" /\ task'[s].args = <<>>) =>
         /\ STATS' = STATS
         /\ task'[s].pc \in {"await_usage", "done"}
         /\ task'[s].success = "unset"
         /\ task'[s].exc = NoExc
         /\ task'[s].replies =
              IF task'[s].pc = "done"
              THEN <<Reply(MESSAGES.refund_usage, <<>>)>>
              ELSE <<>>]_vars

\* C19 witness: with a refund already counted, a /refund request without
\* an argument has ended with the usage reply.
C19_Witness ==
  \E s, t \in RefundTasks :
    /\ task[s].args = <<>> /\ task[s].pc = "done"
    /\ task[s].replies = <<Reply(MESSAGES.refund_usage, <<>>)>>
    /\ task[t].success = "true"
    /\ Refunds(task[t].user) = 1

====
